---------------------------- MODULE Spec2Model ----------------------------
(***************************************************************************)
(* Model of recipes/rmlui/6.x/conanfile.py (class RmlUiConan).             *)
(*                                                                         *)
(* Text is modelled as a sequence of one-character strings.  The two       *)
(* literals the patch step searches for are shortened to two characters    *)
(* each; the shortening keeps what the search and the replacement depend   *)
(* on: neither literal overlaps itself or the other, the injected block    *)
(* contains the helper tag twice and the marker never, and the block       *)
(* starts and ends with white space.                                       *)
(*                                                                         *)
(* Option values are strings, as the host tool stores them: True and       *)
(* False of default_options become "True" and "False".                     *)
(***************************************************************************)
EXTENDS Integers, Sequences, FiniteSets, TLC

VARIABLES
    pc,            \* the lifecycle method the host runs next, "done" or "failed"
    os,            \* self.settings.os
    cppstd,        \* self.settings.compiler.cppstd, 0 when the profile sets none
    options,       \* self.options: option name -> value
    requires,      \* the requirements declared by self.requires(), in order
    read_content,  \* what f.read() returned in the last patch step
    content,       \* Source/Core/CMakeLists.txt in the source folder
    writes,        \* number of save() calls on that file
    runs,          \* number of patch steps applied
    error,         \* the exception that ended the lifecycle, or type "none"
    variables,     \* tc.variables of the CMakeToolchain of generate()
    built,         \* cmake.configure() and cmake.build() completed
    installed,     \* cmake.install() and the licence copy completed
    cpp_info       \* self.cpp_info as filled by package_info()

vars == <<pc, os, cppstd, options, requires, read_content, content, writes,
          runs, error, variables, built, installed, cpp_info>>

----------------------------------------------------------------------------
(* Bounds *)

\* longest build file the patch step is applied to
MaxLen == 4

\* number of times the patch step is applied to one file
MaxRuns == 3

----------------------------------------------------------------------------
(* Text helpers: Python's str operations *)

\* sub in s
Contains(s, sub) ==
    \E i \in 1..(Len(s) - Len(sub) + 1) : SubSeq(s, i, i + Len(sub) - 1) = sub

\* sub starts at index i of s
MatchAt(s, sub, i) ==
    /\ i + Len(sub) - 1 <= Len(s)
    /\ SubSeq(s, i, i + Len(sub) - 1) = sub

RECURSIVE ReplaceFrom(_, _, _, _)
\* s[i..].replace(old, new): left to right, every non-overlapping occurrence
ReplaceFrom(s, old, new, i) ==
    IF i > Len(s) THEN <<>>
    ELSE IF MatchAt(s, old, i)
         THEN new \o ReplaceFrom(s, old, new, i + Len(old))
         ELSE <<s[i]>> \o ReplaceFrom(s, old, new, i + 1)

\* s.replace(old, new)
Replace(s, old, new) == ReplaceFrom(s, old, new, 1)

----------------------------------------------------------------------------
(* Class attributes *)

\* the class attribute `options`: the declared domain of every option
option_values ==
    [shared                     |-> {"True", "False"},
     fPIC                       |-> {"True", "False"},
     build_samples              |-> {"True", "False"},
     with_lua_bindings          |-> {"True", "False"},
     font_engine                |-> {"freetype", "none"},
     matrix_row_major           |-> {"True", "False"},
     with_thirdparty_containers |-> {"True", "False"},
     enable_precompiled_headers |-> {"True", "False"},
     enable_tracy_profiling     |-> {"True", "False"}]

default_options ==
    [shared                     |-> "False",
     fPIC                       |-> "True",
     build_samples              |-> "False",
     with_lua_bindings          |-> "False",
     font_engine                |-> "freetype",
     matrix_row_major           |-> "False",
     with_thirdparty_containers |-> "True",
     enable_precompiled_headers |-> "True",
     enable_tracy_profiling     |-> "False"]

\* truth value of an option, as `if self.options.x` and bool(self.options.x) take it
bool(v) == v \notin {"False", "false", "None", "none", "0", "off", ""}

\* str(self.options.x)
str(v) == v

\* the values settings.os takes
OSes == {"Linux", "Macos", "Windows"}

\* the values settings.compiler.cppstd takes; 0 stands for an unset cppstd
CppStds == {0, 98, 11, 14, 17}

\* the options left after deleting the names in `gone`
Without(opts, gone) == [k \in (DOMAIN opts) \ gone |-> opts[k]]


----------------------------------------------------------------------------
(* config_options() *)

\* config_options() with the test on the system lost
config_options_unconditional(opts, o) == Without(opts, {"fPIC"})

\* self.options after config_options() on target system o
config_options_result(opts, o) ==
    IF o = "Windows" THEN Without(opts, {"fPIC"}) ELSE opts

----------------------------------------------------------------------------
(* validate() *)

\* the minimum of check_min_cppstd(self, 14)
MinCppStd == 14

\* the year check_min_cppstd orders standards by: 98 is 1998, the others 20xx
Year(std) == IF std = 98 THEN 1998 ELSE 2000 + std

\* validate() comparing the standards as plain numbers
validate_raises_numeric(std) == std # 0 /\ std < MinCppStd

\* validate() raises: a cppstd is set and it is older than the minimum
validate_raises(std) == std # 0 /\ Year(std) < Year(MinCppStd)

----------------------------------------------------------------------------
(* requirements() *)

\* a reference "name/version" as self.requires() takes it
Ref(n, v) == [name |-> n, version |-> v]

freetype_ref   == Ref("freetype", "[>=2.10.4 <3]")
robin_hood_ref == Ref("robin-hood-hashing", "3.11.3")
itlib_ref      == Ref("itlib", "1.11.4")
lua_ref        == Ref("lua", "5.4.7")

\* the containers branch with its second self.requires() lost
container_requires_one == <<robin_hood_ref>>

\* the self.requires() calls of the containers branch
container_requires == <<robin_hood_ref, itlib_ref>>

\* requirements() requiring lua whatever with_lua_bindings says
requirements_lua_always(opts) ==
    (IF str(opts.font_engine) = "freetype" THEN <<freetype_ref>> ELSE <<>>)
    \o (IF bool(opts.with_thirdparty_containers) THEN container_requires ELSE <<>>)
    \o <<lua_ref>>

\* the self.requires() calls requirements() makes under opts, in order
requirements_result(opts) ==
    (IF str(opts.font_engine) = "freetype" THEN <<freetype_ref>> ELSE <<>>)
    \o (IF bool(opts.with_thirdparty_containers) THEN container_requires ELSE <<>>)
    \o (IF bool(opts.with_lua_bindings) THEN <<lua_ref>> ELSE <<>>)

----------------------------------------------------------------------------
(* source(): the patch step *)

\* "unset(rmlui_core_TYPE)"
marker == <<"u", ")">>

\* "Conan helper: thirdparty container include dirs"
helper_tag == <<"C", "s">>

\* the block without the comment lines that carry the tag
injection_untagged == <<"n", "i", "n">>

\* the f-string: opening comment with the tag, the if() ... endif() block
\* ("i"), closing comment with the tag, each on lines of their own ("n")
injection == <<"n">> \o helper_tag \o <<"n", "i", "n">> \o helper_tag \o <<"n">>

\* os.path.join(self.source_folder, "Source", "Core", "CMakeLists.txt")
core_cmake == <<"src", "Source", "Core", "CMakeLists.txt">>

\* the block put in front of the marker
patched_before(c) == Replace(c, marker, injection \o marker)

\* content.replace(marker, marker + injection)
patched(c) == Replace(c, marker, marker \o injection)

\* the patch step doing nothing when the marker is missing
patch_result_silent(c) ==
    IF ~Contains(c, helper_tag) /\ Contains(c, marker)
    THEN [content |-> patched(c), saved |-> TRUE, raised |-> FALSE]
    ELSE [content |-> c, saved |-> FALSE, raised |-> FALSE]

\* the patch step on a file holding c: the text the file holds afterwards,
\* whether save() was called, whether ConanInvalidConfiguration was raised
patch_result(c) ==
    IF ~Contains(c, helper_tag)
    THEN IF ~Contains(c, marker)
         THEN [content |-> c, saved |-> FALSE, raised |-> TRUE]
         ELSE [content |-> patched(c), saved |-> TRUE, raised |-> FALSE]
    ELSE [content |-> c, saved |-> FALSE, raised |-> FALSE]

NoError == [type |-> "none"]

\* ConanInvalidConfiguration(f"Upstream changed; cannot patch {core_cmake}
\* (marker '{marker}' not found)")
PatchError ==
    [type   |-> "ConanInvalidConfiguration",
     text   |-> "Upstream changed; cannot patch",
     path   |-> core_cmake,
     marker |-> marker]

\* what check_min_cppstd raises
CppStdError == [type |-> "ConanInvalidConfiguration", text |-> "cppstd", min |-> MinCppStd]

\* a failure of get(), of cmake.configure()/build() or of cmake.install()
ToolError(what) == [type |-> "ConanException", text |-> what]

----------------------------------------------------------------------------
(* generate() *)

\* generate() with RMLUI_LUA_BINDINGS taken from the line above it
generate_lua_from_samples(opts) ==
    [RMLUI_SAMPLES               |-> bool(opts.build_samples),
     RMLUI_LUA_BINDINGS          |-> bool(opts.build_samples),
     RMLUI_FONT_ENGINE           |-> str(opts.font_engine),
     RMLUI_MATRIX_ROW_MAJOR      |-> bool(opts.matrix_row_major),
     RMLUI_THIRDPARTY_CONTAINERS |-> bool(opts.with_thirdparty_containers),
     RMLUI_PRECOMPILED_HEADERS   |-> bool(opts.enable_precompiled_headers),
     RMLUI_TRACY_PROFILING       |-> bool(opts.enable_tracy_profiling),
     RMLUI_WARNINGS_AS_ERRORS    |-> FALSE]

\* generate() without the override of RMLUI_WARNINGS_AS_ERRORS
generate_without_override(opts) ==
    [RMLUI_SAMPLES               |-> bool(opts.build_samples),
     RMLUI_LUA_BINDINGS          |-> bool(opts.with_lua_bindings),
     RMLUI_FONT_ENGINE           |-> str(opts.font_engine),
     RMLUI_MATRIX_ROW_MAJOR      |-> bool(opts.matrix_row_major),
     RMLUI_THIRDPARTY_CONTAINERS |-> bool(opts.with_thirdparty_containers),
     RMLUI_PRECOMPILED_HEADERS   |-> bool(opts.enable_precompiled_headers),
     RMLUI_TRACY_PROFILING       |-> bool(opts.enable_tracy_profiling)]

\* tc.variables after the assignments of generate()
generate_result(opts) ==
    [RMLUI_SAMPLES               |-> bool(opts.build_samples),
     RMLUI_LUA_BINDINGS          |-> bool(opts.with_lua_bindings),
     RMLUI_FONT_ENGINE           |-> str(opts.font_engine),
     RMLUI_MATRIX_ROW_MAJOR      |-> bool(opts.matrix_row_major),
     RMLUI_THIRDPARTY_CONTAINERS |-> bool(opts.with_thirdparty_containers),
     RMLUI_PRECOMPILED_HEADERS   |-> bool(opts.enable_precompiled_headers),
     RMLUI_TRACY_PROFILING       |-> bool(opts.enable_tracy_profiling),
     RMLUI_WARNINGS_AS_ERRORS    |-> FALSE]

\* tc.variables of a fresh CMakeToolchain
NoVariables == [x \in {} |-> FALSE]

----------------------------------------------------------------------------
(* package_info() *)

\* self.cpp_info before package_info()
NoCppInfo == [published |-> FALSE]

\* package_info() with the test on shared inverted
package_info_defines_inverted(opts) ==
    IF bool(opts.shared) THEN <<"RMLUI_STATIC_LIB">> ELSE <<>>

\* self.cpp_info.defines after package_info()
package_info_defines(opts) ==
    IF ~bool(opts.shared) THEN <<"RMLUI_STATIC_LIB">> ELSE <<>>

\* self.cpp_info after package_info(), libs being what collect_libs() found
package_info_result(opts, libs) ==
    [published         |-> TRUE,
     cmake_file_name   |-> "RmlUi",
     cmake_target_name |-> "RmlUi::RmlUi",
     libs              |-> libs,
     defines           |-> package_info_defines(opts)]

\* the libraries cmake.install() may leave in the package folder
InstalledLibs == {{"rmlui"}, {"rmlui", "rmlui_debugger"}}

----------------------------------------------------------------------------
(* The inputs *)

RECURSIVE Texts(_)
\* every text of at most n characters over the characters of the two literals
\* and the line break
Texts(n) ==
    IF n = 0 THEN {<<>>}
    ELSE LET shorter == Texts(n - 1)
         IN  shorter \cup {Append(t, ch) : t \in shorter, ch \in {"u", ")", "C", "s", "n"}}

\* the build files get() may extract: the marker once, as upstream ships it;
\* no marker; the tag and no marker; marker and tag; the marker twice
UpstreamFiles ==
    { <<"n", "u", ")", "n">>,
      <<"n", "n">>,
      <<"C", "s", "n">>,
      <<"u", ")", "n", "C", "s">>,
      <<"u", ")", "n", "u", ")">> }

----------------------------------------------------------------------------
(* The lifecycle, one action per method of the recipe *)

\* the order in which the host runs the methods: each starts when the one
\* before it has returned
phases == <<"config_options", "apply_options", "requirements", "validate",
            "source", "generate", "build", "package", "package_info", "done">>

\* the position of phase p in that order
Rank(p) == CHOOSE i \in 1..Len(phases) : phases[i] = p

\* the phase the host runs once phase p has returned
phase_after(p) == phases[Rank(p) + 1]

Init ==
    /\ pc = "config_options"
    /\ os \in OSes
    /\ cppstd \in CppStds
    /\ options = default_options
    /\ requires = <<>>
    /\ read_content = <<>>
    /\ content = <<>>
    /\ writes = 0
    /\ runs = 0
    /\ error = NoError
    /\ variables = NoVariables
    /\ built = FALSE
    /\ installed = [done |-> FALSE, libs |-> {}]
    /\ cpp_info = NoCppInfo

config_options ==
    /\ pc = "config_options"
    /\ options' = config_options_result(options, os)
    /\ pc' = phase_after("config_options")
    /\ UNCHANGED <<os, cppstd, requires, read_content, content, writes, runs,
                   error, variables, built, installed, cpp_info>>

\* the host assigns the profile's and the command line's option values: any
\* value of the declared domain, for every option config_options() left
apply_options ==
    /\ pc = "apply_options"
    /\ \E chosen \in [DOMAIN options -> UNION {option_values[k] : k \in DOMAIN option_values}] :
          /\ \A k \in DOMAIN options : chosen[k] \in option_values[k]
          /\ options' = chosen
    /\ pc' = phase_after("apply_options")
    /\ UNCHANGED <<os, cppstd, requires, read_content, content, writes, runs,
                   error, variables, built, installed, cpp_info>>

requirements ==
    /\ pc = "requirements"
    /\ requires' = requirements_result(options)
    /\ pc' = phase_after("requirements")
    /\ UNCHANGED <<os, cppstd, options, read_content, content, writes, runs,
                   error, variables, built, installed, cpp_info>>

validate ==
    /\ pc = "validate"
    /\ IF validate_raises(cppstd)
       THEN pc' = "failed" /\ error' = CppStdError
       ELSE pc' = phase_after("validate") /\ error' = error
    /\ UNCHANGED <<os, cppstd, options, requires, read_content, content, writes,
                   runs, variables, built, installed, cpp_info>>

\* source(): get() extracts the archive, then the patch step runs on the
\* build file it extracted
source ==
    /\ pc = "source"
    /\ \E f \in UpstreamFiles :
          LET r == patch_result(f)
          IN  /\ read_content' = f
              /\ content' = r.content
              /\ writes' = IF r.saved THEN writes + 1 ELSE writes
              /\ runs' = runs + 1
              /\ IF r.raised
                 THEN pc' = "failed" /\ error' = PatchError
                 ELSE pc' = phase_after("source") /\ error' = error
    /\ UNCHANGED <<os, cppstd, options, requires, variables, built, installed,
                   cpp_info>>

\* source() when get() fails: the exception leaves source() before the patch step
source_get_fails ==
    /\ pc = "source"
    /\ pc' = "failed"
    /\ error' = ToolError("get")
    /\ UNCHANGED <<os, cppstd, options, requires, read_content, content, writes,
                   runs, variables, built, installed, cpp_info>>

generate ==
    /\ pc = "generate"
    /\ variables' = generate_result(options)
    /\ pc' = phase_after("generate")
    /\ UNCHANGED <<os, cppstd, options, requires, read_content, content, writes,
                   runs, error, built, installed, cpp_info>>

\* build(): cmake.configure() and cmake.build() complete, or one of them raises
build ==
    /\ pc = "build"
    /\ \E ok \in BOOLEAN :
          IF ok
          THEN built' = TRUE /\ pc' = phase_after("build") /\ error' = error
          ELSE built' = built /\ pc' = "failed" /\ error' = ToolError("cmake")
    /\ UNCHANGED <<os, cppstd, options, requires, read_content, content, writes,
                   runs, variables, installed, cpp_info>>

\* package(): cmake.install() and copy() complete, or cmake.install() raises
package ==
    /\ pc = "package"
    /\ \/ \E libs \in InstalledLibs :
             /\ installed' = [done |-> TRUE, libs |-> libs]
             /\ pc' = phase_after("package")
             /\ error' = error
       \/ /\ installed' = installed
          /\ pc' = "failed"
          /\ error' = ToolError("install")
    /\ UNCHANGED <<os, cppstd, options, requires, read_content, content, writes,
                   runs, variables, built, cpp_info>>

package_info ==
    /\ pc = "package_info"
    /\ cpp_info' = package_info_result(options, installed.libs)
    /\ pc' = phase_after("package_info")
    /\ UNCHANGED <<os, cppstd, options, requires, read_content, content, writes,
                   runs, error, variables, built, installed>>

Next ==
    \/ config_options
    \/ apply_options
    \/ requirements
    \/ validate
    \/ source
    \/ source_get_fails
    \/ generate
    \/ build
    \/ package
    \/ package_info

Spec == Init /\ [][Next]_vars

----------------------------------------------------------------------------
(* The patch step of source() on its own, applied again and again to one file *)

PatchInit ==
    /\ pc = "source"
    /\ os \in {"Linux"}
    /\ cppstd = 0
    /\ options = default_options
    /\ requires = <<>>
    /\ content \in Texts(MaxLen)
    /\ read_content = content
    /\ writes = 0
    /\ runs = 0
    /\ error = NoError
    /\ variables = NoVariables
    /\ built = FALSE
    /\ installed = [done |-> FALSE, libs |-> {}]
    /\ cpp_info = NoCppInfo

\* lines 92-122 of source() on the file as it is
patch_step ==
    /\ runs < MaxRuns
    /\ LET r == patch_result(content)
       IN  /\ read_content' = content
           /\ content' = r.content
           /\ writes' = IF r.saved THEN writes + 1 ELSE writes
           /\ error' = IF r.raised THEN PatchError ELSE NoError
    /\ runs' = runs + 1
    /\ UNCHANGED <<pc, os, cppstd, options, requires, variables, built,
                   installed, cpp_info>>

PatchNext == patch_step

PatchSpec == PatchInit /\ [][PatchNext]_vars

----------------------------------------------------------------------------
(* Properties of the patch step, checked under PatchSpec *)

\* number of places where sub starts in s
Occurrences(s, sub) == Cardinality({i \in 1..Len(s) : MatchAt(s, sub, i)})

\* the last patch step returned without raising
LastStepSucceeded == runs >= 1 /\ error.type = "none"

\* C1: once a patch step has succeeded on a file, the next patch step on that
\* file leaves its text as it is, calls save() not at all and succeeds too:
\* applying the step twice is applying it once.
C1_PatchIdempotent ==
    [][LastStepSucceeded =>
          /\ content' = content
          /\ writes' = writes
          /\ error'.type = "none"]_vars

\* a second step has run on a file the first step patched
C1_Witness ==
    /\ runs = 2
    /\ writes = 1
    /\ error.type = "none"
    /\ Contains(content, marker \o injection)
    /\ content = read_content

\* the last patch step raised the upstream-incompatibility error, naming the
\* marker and the path, and left the file as it read it
RaisedAndUntouched ==
    /\ error.type = "ConanInvalidConfiguration"
    /\ error.marker = marker
    /\ error.path = core_cmake
    /\ content = read_content
    /\ writes = 0

\* C2 as stated: a patch step on any file without the marker raises and writes
\* nothing.
C2_AsStated ==
    (runs >= 1 /\ ~Contains(read_content, marker)) => RaisedAndUntouched

\* C2: a patch step on a file with neither the marker nor the helper tag
\* raises ConanInvalidConfiguration naming the marker and the path, and the
\* file is as it was; a file without the marker is never written, tag or not.
C2_MissingMarkerRaises ==
    /\ (runs >= 1 /\ ~Contains(read_content, marker) /\ ~Contains(read_content, helper_tag))
          => RaisedAndUntouched
    /\ (runs >= 1 /\ ~Contains(read_content, marker))
          => (content = read_content /\ writes = 0)

\* a step has run on a file with neither literal, and raised
C2_Witness ==
    /\ runs >= 1
    /\ Len(read_content) >= 2
    /\ ~Contains(read_content, marker)
    /\ ~Contains(read_content, helper_tag)
    /\ error = PatchError

\* before, with one copy of the block put right after the marker at index i
InsertedAfter(before, i) ==
    SubSeq(before, 1, i + Len(marker) - 1)
        \o injection
        \o SubSeq(before, i + Len(marker), Len(before))

\* the file read had the marker and no helper tag
UnpatchedClean ==
    runs >= 1 /\ Contains(read_content, marker) /\ ~Contains(read_content, helper_tag)

\* C3 as stated: on any file with the marker and without the tag the step
\* inserts one copy of the block after the marker and changes nothing else.
C3_AsStated ==
    UnpatchedClean =>
        \E i \in 1..Len(read_content) :
            /\ MatchAt(read_content, marker, i)
            /\ content = InsertedAfter(read_content, i)

\* C3: on a file without the tag that holds the marker exactly once, the
\* step writes the file back with one copy of the block right after the
\* marker and every other character where it was.
C3_OneInsertion ==
    (UnpatchedClean /\ Occurrences(read_content, marker) = 1) =>
        /\ \A i \in 1..Len(read_content) :
              MatchAt(read_content, marker, i) => content = InsertedAfter(read_content, i)
        /\ Len(content) = Len(read_content) + Len(injection)
        /\ Occurrences(content, injection) = 1
        /\ error.type = "none"
        /\ writes = 1

\* the first step has patched a file holding the marker once, inside other text
C3_Witness ==
    /\ runs = 1
    /\ UnpatchedClean
    /\ Occurrences(read_content, marker) = 1
    /\ Len(read_content) > Len(marker)
    /\ writes = 1
    /\ content # read_content

----------------------------------------------------------------------------
(* Properties of the lifecycle, checked under Spec *)

\* requirements() has returned
RequirementsDeclared == pc \notin {"config_options", "apply_options", "requirements"}

\* the names of the requirements declared
RequiredNames == {requires[i].name : i \in 1..Len(requires)}

IsContainerRef(r) == r.name \in {"robin-hood-hashing", "itlib"}
IsOtherRef(r) == ~IsContainerRef(r)

\* C4: with with_thirdparty_containers enabled, requirements() declares what
\* it declares for the same options with the toggle disabled, and two
\* requirements more: robin-hood-hashing/3.11.3 and itlib/1.11.4.
C4_ContainersAddTwo ==
    (RequirementsDeclared /\ options.with_thirdparty_containers = "True") =>
        LET off == [options EXCEPT !.with_thirdparty_containers = "False"]
        IN  /\ Len(requires) = Len(requirements_result(off)) + 2
            /\ SelectSeq(requires, IsOtherRef) = requirements_result(off)
            /\ SelectSeq(requires, IsContainerRef)
                 = << [name |-> "robin-hood-hashing", version |-> "3.11.3"],
                      [name |-> "itlib", version |-> "1.11.4"] >>

\* requirements() ran with the toggle on, freetype off and lua on
C4_Witness ==
    /\ RequirementsDeclared
    /\ options.with_thirdparty_containers = "True"
    /\ options.font_engine = "none"
    /\ options.with_lua_bindings = "True"
    /\ Len(requires) = 3

\* C5: every requirement declared has its controlling option enabled, no
\* name is declared twice, and nothing is declared with font_engine "none",
\* with_thirdparty_containers and with_lua_bindings off.
C5_NoRequirementWhenDisabled ==
    RequirementsDeclared =>
        /\ RequiredNames \subseteq {"freetype", "robin-hood-hashing", "itlib", "lua"}
        /\ "freetype" \in RequiredNames => options.font_engine = "freetype"
        /\ "robin-hood-hashing" \in RequiredNames => options.with_thirdparty_containers = "True"
        /\ "itlib" \in RequiredNames => options.with_thirdparty_containers = "True"
        /\ "lua" \in RequiredNames => options.with_lua_bindings = "True"
        /\ \A i, j \in 1..Len(requires) : requires[i].name = requires[j].name => i = j
        /\ ( /\ options.font_engine = "none"
             /\ options.with_thirdparty_containers = "False"
             /\ options.with_lua_bindings = "False" ) => requires = <<>>

\* requirements() ran with the three options off
C5_Witness ==
    /\ pc = "validate"
    /\ options.font_engine = "none"
    /\ options.with_thirdparty_containers = "False"
    /\ options.with_lua_bindings = "False"
    /\ requires = <<>>

\* C6: once config_options() has run, fPIC is no option on Windows and is an
\* option on every other system, holding its default "True" when
\* config_options() returns.
C6_fPICPruned ==
    pc # "config_options" =>
        IF os = "Windows"
        THEN "fPIC" \notin DOMAIN options
        ELSE /\ "fPIC" \in DOMAIN options
             /\ pc = "apply_options" => options.fPIC = "True"

\* config_options() has just run on Windows and the other options are left
C6_Witness ==
    /\ pc = "apply_options"
    /\ os = "Windows"
    /\ DOMAIN options = (DOMAIN default_options) \ {"fPIC"}

\* the defines package_info() published
PublishedDefines == {cpp_info.defines[i] : i \in 1..Len(cpp_info.defines)}

\* C7: the metadata package_info() publishes holds the define
\* RMLUI_STATIC_LIB exactly when the option shared is False.
C7_StaticDefine ==
    cpp_info.published =>
        ("RMLUI_STATIC_LIB" \in PublishedDefines <=> options.shared = "False")

\* package_info() has published the define of a static build
C7_Witness ==
    /\ pc = "done"
    /\ cpp_info.published
    /\ options.shared = "False"
    /\ cpp_info.defines = <<"RMLUI_STATIC_LIB">>

\* generate() has returned
Generated == pc \in {"build", "package", "package_info", "done"}

\* the build variable each option is to set
VariableOf ==
    [build_samples              |-> "RMLUI_SAMPLES",
     with_lua_bindings          |-> "RMLUI_LUA_BINDINGS",
     font_engine                |-> "RMLUI_FONT_ENGINE",
     matrix_row_major           |-> "RMLUI_MATRIX_ROW_MAJOR",
     with_thirdparty_containers |-> "RMLUI_THIRDPARTY_CONTAINERS",
     enable_precompiled_headers |-> "RMLUI_PRECOMPILED_HEADERS",
     enable_tracy_profiling     |-> "RMLUI_TRACY_PROFILING"]

\* option o sets its own variable: font_engine as the string it is, every
\* other option as the boolean it stands for
SetsItsVariable(o) ==
    /\ o \in DOMAIN VariableOf
    /\ VariableOf[o] \in DOMAIN variables
    /\ IF o = "font_engine"
       THEN variables[VariableOf[o]] = options[o]
       ELSE variables[VariableOf[o]] = (options[o] = "True")

\* C8 as stated: every option of the effective option set has its build
\* variable in the mapping generate() creates.
C8_AsStated ==
    Generated => \A o \in DOMAIN options : SetsItsVariable(o)

\* C8: every option but shared and fPIC has exactly one build variable in
\* the mapping generate() creates, set from that option alone, booleans as
\* booleans and font_engine as its string; the mapping holds these seven
\* variables and RMLUI_WARNINGS_AS_ERRORS, and none for shared or fPIC.
C8_FeatureOptionsMapped ==
    Generated =>
        /\ \A o \in (DOMAIN options) \ {"shared", "fPIC"} : SetsItsVariable(o)
        /\ \A o1, o2 \in DOMAIN VariableOf : VariableOf[o1] = VariableOf[o2] => o1 = o2
        /\ DOMAIN variables
             = {VariableOf[o] : o \in DOMAIN VariableOf} \cup {"RMLUI_WARNINGS_AS_ERRORS"}
        /\ ( /\ options.font_engine = "none"
             /\ options.with_thirdparty_containers = "False"
             /\ options.with_lua_bindings = "False" )
           => /\ variables.RMLUI_FONT_ENGINE = "none"
              /\ variables.RMLUI_THIRDPARTY_CONTAINERS = FALSE
              /\ variables.RMLUI_LUA_BINDINGS = FALSE

\* generate() ran on the options of the scenario, with samples on
C8_Witness ==
    /\ pc = "build"
    /\ options.font_engine = "none"
    /\ options.with_thirdparty_containers = "False"
    /\ options.with_lua_bindings = "False"
    /\ options.build_samples = "True"
    /\ variables.RMLUI_SAMPLES = TRUE
    /\ variables.RMLUI_FONT_ENGINE = "none"

\* C9: whatever the options, the mapping generate() creates holds
\* RMLUI_WARNINGS_AS_ERRORS, and holds it False.
C9_WarningsAsErrorsOff ==
    Generated =>
        /\ "RMLUI_WARNINGS_AS_ERRORS" \in DOMAIN variables
        /\ variables.RMLUI_WARNINGS_AS_ERRORS = FALSE

\* generate() ran with every boolean option on
C9_Witness ==
    /\ pc = "build"
    /\ \A o \in (DOMAIN options) \ {"font_engine"} : options[o] = "True"
    /\ variables.RMLUI_WARNINGS_AS_ERRORS = FALSE

\* a step that moves the lifecycle moves it to the next phase or ends it, and
\* what a phase produces changes in that phase alone
InOrder ==
    /\ pc' # pc => (pc # "failed" /\ pc # "done"
                    /\ (pc' = "failed" \/ Rank(pc') = Rank(pc) + 1))
    /\ content' # content => pc = "source"
    /\ variables' # variables => pc = "generate"
    /\ built' # built => pc = "build"
    /\ installed' # installed => (pc = "package" /\ built)
    /\ cpp_info' # cpp_info => (pc = "package_info" /\ built /\ installed.done)

\* after a failure nothing runs, and nothing is published without an install
NoPartialSuccess ==
    /\ pc = "failed" => (vars' = vars /\ error.type # "none")
    /\ pc' = "failed" => cpp_info' = NoCppInfo
    /\ cpp_info'.published => (installed'.done /\ built' /\ error'.type = "none")

\* validate() with a cppstd that is set and older than C++14 ends the lifecycle
OldStandardAborts ==
    (pc = "validate" /\ pc' # pc /\ cppstd \in {98, 11}) =>
        (pc' = "failed" /\ error'.type = "ConanInvalidConfiguration")

\* a failing native configure, build or install shows as an error, and no
\* step goes on with an error pending
ErrorsAbort ==
    /\ (pc' # pc /\ error'.type # "none") => pc' = "failed"
    /\ (pc = "build" /\ pc' # pc /\ ~built') => pc' = "failed"
    /\ (pc = "package" /\ pc' # pc /\ ~installed'.done) => pc' = "failed"

\* source() has run its patch step in this step
SourcePatched == pc = "source" /\ runs' # runs

\* C10 as stated: the phases run in order, every fatal condition, a missing
\* marker in source() among them, ends the lifecycle at once, and metadata
\* is published only after a completed install.
C10_AsStated ==
    [][/\ InOrder
       /\ NoPartialSuccess
       /\ OldStandardAborts
       /\ ErrorsAbort
       /\ (SourcePatched /\ ~Contains(read_content', marker)) => pc' = "failed"]_vars

\* C10: the phases run in order; a cppstd that is set and below 14 in
\* validate(), a build file with neither marker nor helper tag in source(),
\* a failing get(), configure, build or install each end the lifecycle at
\* once, with no later phase run; metadata is published only after a
\* completed install.
C10_LifecycleAborts ==
    [][/\ InOrder
       /\ NoPartialSuccess
       /\ OldStandardAborts
       /\ ErrorsAbort
       /\ (SourcePatched /\ ~Contains(read_content', marker)
                         /\ ~Contains(read_content', helper_tag))
             => (pc' = "failed" /\ error' = PatchError /\ content' = read_content')]_vars

\* a lifecycle ended in validate() on C++11 before anything was fetched
C10_Witness ==
    /\ pc = "failed"
    /\ cppstd = 11
    /\ error = CppStdError
    /\ runs = 0
    /\ ~built
    /\ ~cpp_info.published

============================================================================
